---- MODULE Spec2Model ----
(***************************************************************************)
(* A model of the simcpp20 discrete-event simulation kernel: the event     *)
(* lifecycle (include/fschuetz04/simcpp20/event.hpp), the order of the     *)
(* scheduler queue (simcpp20/scheduled_event.cpp), coroutine processes     *)
(* (event::promise_type) and the simulation object that owns the clock and *)
(* the queue.  The simulation class itself (schedule, timeout, step,       *)
(* any_of, all_of) is not among the source files; it is modelled from the  *)
(* specification's section 4.2 and 4.4.  The resource used by              *)
(* examples/bank.cpp (resource.hpp) is not among them either; it is        *)
(* modelled from the specification's section 4.5.                          *)
(***************************************************************************)
EXTENDS Integers, Sequences, FiniteSets, TLC

(* ------------------------------ bounds -------------------------------- *)

\* Event data objects that may be constructed (scheduler runs: fewer).
MaxEvents == 3

SchedEvents == 2

\* Sequence numbers client code may use up with schedule, timeout, trigger
\* and coroutine calls (coroutine and combinator runs: fewer).
MaxIds == 3

FewIds == 2

\* Callbacks client code may add (combinator runs: the closures any_of and
\* all_of add).
MaxCbs == 1

CombCbs == 2

\* Coroutines that may be started (coroutine runs: more).
MaxProcs == 1

ProcProcs == 2

\* Largest delay passed to schedule() and timeout().
MaxDelay == 1

\* Largest capacity a resource is constructed with, and the requests and
\* sequence numbers client code may use up on it.
MaxCapacity == 2

ResEvents == 4

ResIds == 4

\* The bank: customers, longest service time, and the time a customer
\* waits for a counter at most (arrival intervals are up to MaxDelay).
NCustomers == 3

MaxService == 2

MaxWait == 1

\* Events the bank constructs: the source's ev_, and for each customer the
\* arrival timeout, ev_, request, timeout, any_of and service timeout.
BankEvents == 6 * NCustomers + 1

Events == 1..MaxEvents

Procs == 1..ProcProcs

(* ------------------------------- state -------------------------------- *)

VARIABLES
  state_,        \* event::data::state_ of every event data object
  handles_,      \* event::data::handles_: coroutines awaiting the event, in order
  cbs_,          \* event::data::cbs_: callbacks added to the event, in order
  n_events,      \* number of event data objects constructed so far
  scheduled_evs, \* the simulation's queue of scheduled_event (time, id, ev)
  now_,          \* the simulation's clock
  next_id,       \* the simulation's sequence counter
  procs,         \* the coroutines: program, resume point, status, promise ev_
  n_procs,       \* number of coroutines created so far
  n_ptr,         \* all_of's shared remaining-count, by combinator event
  counters,      \* the resource: capacity, granted count, queue of requests
  hist           \* history: what has been called and fired so far

vars == <<state_, handles_, cbs_, n_events, scheduled_evs, now_, next_id,
          procs, n_procs, n_ptr, counters, hist>>

\* The whole program state as one value, so that an operation that calls
\* other operations is the composition of their effects.
World ==
  [state_ |-> state_, handles_ |-> handles_, cbs_ |-> cbs_,
   n_events |-> n_events, scheduled_evs |-> scheduled_evs, now_ |-> now_,
   next_id |-> next_id, procs |-> procs, n_procs |-> n_procs,
   n_ptr |-> n_ptr, counters |-> counters, hist |-> hist]

Commit(w) ==
  /\ state_' = w.state_
  /\ handles_' = w.handles_
  /\ cbs_' = w.cbs_
  /\ n_events' = w.n_events
  /\ scheduled_evs' = w.scheduled_evs
  /\ now_' = w.now_
  /\ next_id' = w.next_id
  /\ procs' = w.procs
  /\ n_procs' = w.n_procs
  /\ n_ptr' = w.n_ptr
  /\ counters' = w.counters
  /\ hist' = w.hist

\* loc: the events a coroutine body has made, in the order it made them.
NoProc == [prog |-> <<>>, pc |-> 0, st |-> "none", ev |-> 0,
           susp |-> 0, res |-> 0, sync |-> 0, loc |-> <<>>]

\* History of a customer: time of arrival, outcome and its time, releases.
NoCust == [arrive |-> 0, out |-> "none", at |-> 0, released |-> 0]

\* No resource constructed yet.
NoResource == [capacity |-> 0, granted |-> 0, queue |-> <<>>]

NoPop == [time |-> 0, id |-> 0, ev |-> 0, live |-> FALSE]

Late == 0 - 1

\* The state after construction, with room for the event data objects E and
\* the coroutines P.
InitOver(E, P) ==
  /\ state_ = [e \in E |-> "pending"]
  /\ handles_ = [e \in E |-> <<>>]
  /\ cbs_ = [e \in E |-> <<>>]
  /\ n_events = 0
  /\ scheduled_evs = {}
  /\ now_ = 0
  /\ next_id = 0
  /\ procs = [p \in P |-> NoProc]
  /\ n_procs = 0
  /\ n_ptr = [e \in E |-> 0]
  /\ counters = NoResource
  /\ hist = [last_pop |-> NoPop,
             trig_again |-> [e \in E |-> FALSE],
             trig_enq |-> [e \in E |-> 0],
             cb_fired |-> [e \in E |-> <<>>],
             n_cbs |-> 0,
             kind |-> [e \in E |-> "plain"],
             srcs |-> [e \in E |-> <<>>],
             fresh |-> {},
             direct |-> {},
             log |-> <<>>,
             releases |-> 0,
             grant_at |-> [e \in E |-> Late],
             cust |-> [p \in P |-> NoCust]]

Init == InitOver(Events, Procs)

(* ------------------------- event: predicates -------------------------- *)

pending(w, e) == w.state_[e] = "pending"

processed(w, e) == w.state_[e] = "processed"

\* A mutant: triggered() that is true only once the event is processed.
triggered_when_processed(w, e) == processed(w, e)

triggered(w, e) == w.state_[e] = "triggered" \/ processed(w, e)

\* A mutant: aborted() that is never true.
aborted_never(w, e) == FALSE

aborted(w, e) == w.state_[e] = "aborted"

(* --------------------------- scheduled_event --------------------------- *)

\* A mutant: the tie-break on the sequence number is lost.
operator_gt_no_tiebreak(a, b) == a.time > b.time

\* A mutant: the comparison turned around, so that the queue hands out its
\* greatest entry.
operator_gt_reversed(a, b) ==
  IF a.time # b.time THEN a.time < b.time ELSE a.id < b.id

\* scheduled_event::operator>
operator_gt(a, b) ==
  IF a.time # b.time THEN a.time > b.time ELSE a.id > b.id

(* ----------------------------- simulation ------------------------------ *)

\* simulation::schedule: push (now + delay, next id, ev), count the id.
schedule(w, e, delay) ==
  [w EXCEPT !.scheduled_evs =
              @ \cup {[time |-> w.now_ + delay, id |-> w.next_id, ev |-> e]},
            !.next_id = @ + 1]

\* The entries the min-ordered queue may hand out as its top: those that
\* are greater than no other entry.
top(q) == {x \in q : \A y \in q \ {x} : ~operator_gt(x, y)}

(* ------------------------- event: operations --------------------------- *)

\* History only: a call of trigger() on e: whether it scheduled e, and
\* whether it came after a call that had scheduled e.
NoteTrigger(w, e, enq) ==
  [w EXCEPT !.hist.trig_again[e] = @ \/ w.hist.trig_enq[e] > 0,
            !.hist.trig_enq[e] = IF enq /\ @ < 2 THEN @ + 1 ELSE @]

\* A mutant: trigger() without the check that the event is pending.
trigger_unguarded(w, e) ==
  LET w1 == schedule(NoteTrigger(w, e, TRUE), e, 0)
  IN [w1 EXCEPT !.state_[e] = "triggered"]

\* event::trigger
trigger(w, e) ==
  IF ~pending(w, e)
  THEN NoteTrigger(w, e, FALSE)
  ELSE LET w1 == schedule(NoteTrigger(w, e, TRUE), e, 0)
       IN [w1 EXCEPT !.state_[e] = "triggered"]

\* std::coroutine_handle::destroy on each handle of a list
RECURSIVE destroy_all(_, _)
destroy_all(ps, hs) ==
  IF hs = <<>> THEN ps
  ELSE destroy_all([ps EXCEPT ![Head(hs)].st = "destroyed"], Tail(hs))

\* A mutant: abort() without the check that the event is pending.
abort_unguarded(w, e) ==
  [w EXCEPT !.state_[e] = "aborted",
            !.procs = destroy_all(@, w.handles_[e]),
            !.handles_[e] = <<>>,
            !.cbs_[e] = <<>>]

\* event::abort
abort(w, e) ==
  IF ~pending(w, e)
  THEN w
  ELSE [w EXCEPT !.state_[e] = "aborted",
                 !.procs = destroy_all(@, w.handles_[e]),
                 !.handles_[e] = <<>>,
                 !.cbs_[e] = <<>>]

\* A mutant: add_callback() that does not keep the callback.
add_callback_dropped(w, e, cb) == w

\* event::add_callback
add_callback(w, e, cb) ==
  IF processed(w, e) \/ aborted(w, e)
  THEN w
  ELSE [w EXCEPT !.cbs_[e] = Append(@, cb)]

\* A mutant: await_ready() that never reports an event as ready.
await_ready_never(w, e) == FALSE

\* event::await_ready
await_ready(w, e) == processed(w, e)

\* event::await_suspend, for the coroutine p
await_suspend(w, e, p) ==
  IF aborted(w, e)
  THEN [w EXCEPT !.procs[p].st = "destroyed"]
  ELSE [w EXCEPT !.handles_[e] = Append(@, p),
                 !.procs[p].st = "suspended",
                 !.procs[p].susp = @ + 1]

(* ------------------------------ coroutines ----------------------------- *)

\* History only: client code called trigger(), abort() or schedule() on a
\* combinator's event itself.
Touch(w, e) ==
  IF w.hist.kind[e] \in {"any_of", "all_of"}
  THEN [w EXCEPT !.hist.direct = @ \cup {e}]
  ELSE w

\* A mutant: the completion event is not scheduled when the coroutine starts.
initial_suspend_unscheduled(w, p) == w

\* promise_type::initial_suspend: schedule ev_ at the current time; the
\* coroutine then awaits ev_ (resume point 0).
initial_suspend(w, p) == schedule(w, w.procs[p].ev, 0)

\* promise_type::return_void followed by final_suspend
return_void(w, p) ==
  [trigger(w, w.procs[p].ev) EXCEPT !.procs[p].st = "done"]

\* A mutant: co_await suspends on the event whatever its state is.
co_await_never_ready(w, e, p) == await_suspend(w, e, p)

\* co_await e in coroutine p: when the event is ready the coroutine goes on
\* to its next statement at once, otherwise await_suspend decides.
co_await(w, e, p) ==
  IF await_ready(w, e)
  THEN [w EXCEPT !.procs[p].pc = @ + 1, !.procs[p].sync = @ + 1]
  ELSE await_suspend(w, e, p)

\* The body of coroutine p from its resume point to its next suspension,
\* its return or its destruction.
\* The statements of the bank's coroutines (examples/bank.cpp) use
\* operations of the simulation and the resource that are defined below.
RECURSIVE spawn(_, _), timeout(_, _), any_of(_, _), request(_), release(_)

\* The body of customer() with its service time drawn: request a counter,
\* wait for it at most MaxWait, leave unhappy or be served and release.
customer(service_time) ==
  <<[op |-> "arrive", ev |-> 0],
    [op |-> "request", ev |-> 0],
    [op |-> "timeout", ev |-> MaxWait],
    [op |-> "any_of", ev |-> 0],
    [op |-> "await_loc", ev |-> 3],
    [op |-> "leave", ev |-> 1],
    [op |-> "timeout", ev |-> service_time],
    [op |-> "await_loc", ev |-> 4],
    [op |-> "release", ev |-> 0]>>

\* The body of customer_source() with its draws made: for each customer,
\* start it and wait for the arrival interval.
customer_source(arrival, service) ==
  [k \in 1..(3 * Len(arrival)) |->
     LET id == (k + 2) \div 3 IN
     CASE k % 3 = 1 -> [op |-> "customer", ev |-> service[id]]
       [] k % 3 = 2 -> [op |-> "timeout", ev |-> arrival[id]]
       [] OTHER -> [op |-> "await_loc", ev |-> id]]

\* A statement of the bank's coroutines that is no wait-point, in the
\* coroutine p; the events it makes are kept in loc.
\*   arrive   "Customer arrives"
\*   request  auto request = conf.counters.request();
\*   timeout  auto timeout = sim.timeout(i.ev);
\*   any_of   auto any_of = sim.any_of({request, timeout});
\*   leave    if (!request.triggered()) { request.abort(); co_return; }
\*   release  conf.counters.release();
\*   customer auto proc = customer(sim, conf, id);
bank_statement(w, p, i) ==
  LET loc == w.procs[p].loc
      made(w1) == [w1 EXCEPT !.procs[p].loc = Append(@, w.n_events + 1),
                             !.procs[p].pc = @ + 1]
      next(w1) == [w1 EXCEPT !.procs[p].pc = @ + 1]
  IN CASE i.op = "arrive" -> next([w EXCEPT !.hist.cust[p].arrive = w.now_])
       [] i.op = "request" -> made(request(w))
       [] i.op = "timeout" -> made(timeout(w, i.ev))
       [] i.op = "any_of" ->
            made(any_of(w, <<loc[Len(loc) - 1], loc[Len(loc)]>>))
       [] i.op = "leave" ->
            IF ~triggered(w, loc[i.ev])
            THEN return_void([abort(w, loc[i.ev]) EXCEPT
                                !.hist.cust[p].out = "unhappy",
                                !.hist.cust[p].at = w.now_], p)
            ELSE next([w EXCEPT !.hist.cust[p].out = "served",
                                !.hist.cust[p].at = w.now_])
       [] i.op = "release" ->
            next([release(w) EXCEPT !.hist.cust[p].released = @ + 1])
       [] i.op = "customer" -> next(spawn(w, customer(i.ev)))

\* The body of coroutine p from its resume point to its next suspension,
\* its return or its destruction.
RECURSIVE run(_, _)
run(w, p) ==
  LET pr == w.procs[p] IN
  IF pr.st # "running" THEN w
  ELSE IF pr.pc > Len(pr.prog) THEN return_void(w, p)
  ELSE LET i == pr.prog[pr.pc] IN
       CASE i.op = "await" -> run(co_await(w, i.ev, p), p)
         [] i.op = "await_loc" -> run(co_await(w, pr.loc[i.ev], p), p)
         [] i.op = "trigger" ->
              run([trigger(Touch(w, i.ev), i.ev) EXCEPT !.procs[p].pc = @ + 1], p)
         [] i.op = "abort" ->
              run([abort(Touch(w, i.ev), i.ev) EXCEPT !.procs[p].pc = @ + 1], p)
         [] OTHER -> run(bank_statement(w, p, i), p)

\* std::coroutine_handle::resume: continue past the wait-point.
resume(w, p) ==
  LET w1 == [w EXCEPT !.hist.log = Append(@, [k |-> "resume", n |-> p])] IN
  IF w1.procs[p].st = "suspended"
  THEN run([w1 EXCEPT !.procs[p].st = "running",
                      !.procs[p].pc = @ + 1,
                      !.procs[p].res = @ + 1], p)
  ELSE [w1 EXCEPT !.procs[p].res = @ + 1]

RECURSIVE resume_all(_, _)
resume_all(w, hs) ==
  IF hs = <<>> THEN w ELSE resume_all(resume(w, Head(hs)), Tail(hs))

\* Calling a coroutine function: the promise and its ev_ are constructed,
\* initial_suspend schedules ev_, and the coroutine awaits it.
spawn(w, prog) ==
  LET e == w.n_events + 1
      p == w.n_procs + 1
      w1 == [w EXCEPT !.n_events = e,
                      !.n_procs = p,
                      !.procs[p] = [NoProc EXCEPT !.prog = prog, !.ev = e,
                                                  !.st = "running"],
                      !.hist.kind[e] = "proc"]
  IN run(co_await(initial_suspend(w1, p), e, p), p)

(* ------------------------- callbacks, process() ------------------------ *)

\* e.add_callback(closure): history numbers the callbacks given to e and
\* counts each one's invocations from 0; a callback given to an event that
\* is already processed or aborted is marked Late instead.
register(w, e, k, target) ==
  LET late == w.state_[e] \in {"processed", "aborted"}
      w1 == [w EXCEPT !.hist.n_cbs = @ + 1,
                      !.hist.cb_fired[e] = Append(@, IF late THEN Late ELSE 0)]
  IN add_callback(w1, e, [kind |-> k, target |-> target,
                          k |-> Len(w1.hist.cb_fired[e])])

\* One callback invoked for the processed event: a client callback has no
\* effect on the kernel, or gives a further callback to an event; any_of's
\* closure triggers the combinator's event; all_of's closure counts down
\* and triggers at zero.
closure(w, k, target) ==
  CASE k = "user" -> w
    [] k = "again" ->
         register(w, target, "user", 0)
    [] k = "any_of" -> trigger(w, target)
    [] k = "all_of" ->
         LET w1 == [w EXCEPT !.n_ptr[target] = @ - 1]
         IN IF w1.n_ptr[target] = 0 THEN trigger(w1, target) ELSE w1

\* cb(*this) in process() of e; history counts the invocation.
call(w, e, cb) ==
  closure([w EXCEPT !.hist.cb_fired[e][cb.k] = IF @ < 2 THEN @ + 1 ELSE @,
                    !.hist.log = Append(@, [k |-> "cb", n |-> cb.k])],
          cb.kind, cb.target)

RECURSIVE call_all(_, _, _)
call_all(w, e, cs) ==
  IF cs = <<>> THEN w ELSE call_all(call(w, e, Head(cs)), e, Tail(cs))

\* A mutant: process() without the check for a terminal state.
process_unguarded(w, e) ==
  LET w1 == [w EXCEPT !.state_[e] = "processed"]
      w2 == [resume_all(w1, w1.handles_[e]) EXCEPT !.handles_[e] = <<>>]
  IN [call_all(w2, e, w2.cbs_[e]) EXCEPT !.cbs_[e] = <<>>]

\* A mutant: process() that does not clear the lists it has run.
process_keeps_lists(w, e) ==
  IF processed(w, e) \/ aborted(w, e)
  THEN w
  ELSE LET w1 == [w EXCEPT !.state_[e] = "processed"]
           w2 == resume_all(w1, w1.handles_[e])
       IN call_all(w2, e, w2.cbs_[e])

\* A mutant: process() that invokes the callbacks before it resumes the
\* waiting coroutines.
process_callbacks_first(w, e) ==
  IF processed(w, e) \/ aborted(w, e)
  THEN w
  ELSE LET w1 == [w EXCEPT !.state_[e] = "processed"]
           w2 == [call_all(w1, e, w1.cbs_[e]) EXCEPT !.cbs_[e] = <<>>]
       IN [resume_all(w2, w2.handles_[e]) EXCEPT !.handles_[e] = <<>>]

\* event::process
process(w, e) ==
  IF processed(w, e) \/ aborted(w, e)
  THEN w
  ELSE LET w1 == [w EXCEPT !.state_[e] = "processed"]
           w2 == [resume_all(w1, w1.handles_[e]) EXCEPT !.handles_[e] = <<>>]
       IN [call_all(w2, e, w2.cbs_[e]) EXCEPT !.cbs_[e] = <<>>]

(* ------------------- simulation: events and combinators ---------------- *)

\* A fresh pending event (event's constructor makes a new data object).
new_event(w, k) ==
  [w EXCEPT !.n_events = @ + 1, !.hist.kind[w.n_events + 1] = k]

\* simulation::timeout: a fresh pending event, scheduled after the delay.
timeout(w, delay) ==
  schedule(new_event(w, "plain"), w.n_events + 1, delay)

\* A combinator's closure attached to e: an event that is ready counts at
\* once (the fast path), any other gets the closure as a callback.
attach(w, e, k, target) ==
  IF await_ready(w, e)
  THEN closure(w, k, target)
  ELSE register(w, e, k, target)

RECURSIVE attach_all(_, _, _, _)
attach_all(w, es, k, target) ==
  IF es = <<>> THEN w
  ELSE attach_all(attach(w, Head(es), k, target), Tail(es), k, target)

\* History only: the combinator c over the events es; it is noted as
\* fresh when none of them is processed at its construction.
NoteComb(w, c, es) ==
  [w EXCEPT !.hist.srcs[c] = es,
            !.hist.fresh = IF \A i \in DOMAIN es : ~processed(w, es[i])
                           THEN @ \cup {c} ELSE @]

\* simulation::any_of over the events es
any_of(w, es) ==
  LET c == w.n_events + 1
      w1 == NoteComb(new_event(w, "any_of"), c, es)
  IN attach_all(w1, es, "any_of", c)

\* simulation::all_of over the events es
all_of(w, es) ==
  LET c == w.n_events + 1
      w1 == [NoteComb(new_event(w, "all_of"), c, es) EXCEPT
               !.n_ptr[c] = Len(es)]
  IN IF es = <<>> THEN trigger(w1, c) ELSE attach_all(w1, es, "all_of", c)

(* ------------------------------ resource ------------------------------ *)

\* A mutant: no request counts as aborted for the resource's queue.
queue_keeps_aborted(w) == w.counters.queue

\* The queue Q of the resource: the requests waiting for a slot, in the
\* order of their arrival; a request that was aborted is not in it.
queue(w) == SelectSeq(w.counters.queue, LAMBDA e : ~aborted(w, e))

\* resource::request: a fresh pending event; with a free slot it is granted
\* at once (the granted count goes up, the event is triggered), otherwise
\* it is appended to the queue.
request(w) ==
  LET e == w.n_events + 1
      w1 == new_event(w, "request")
  IN IF w1.counters.granted < w1.counters.capacity
     THEN trigger([w1 EXCEPT !.counters.granted = @ + 1,
                             !.hist.grant_at[e] = w.now_], e)
     ELSE [w1 EXCEPT !.counters.queue = Append(queue(w1), e)]

\* A mutant: release() that takes the slot back although it hands it on.
release_decrements(w) ==
  LET q == queue(w)
      w1 == [w EXCEPT !.hist.releases = @ + 1, !.counters.granted = @ - 1]
  IN IF q # <<>>
     THEN trigger([w1 EXCEPT !.counters.queue = Tail(q)], Head(q))
     ELSE [w1 EXCEPT !.counters.queue = q]

\* resource::release: with a request waiting, the head of the queue is
\* removed and triggered (the slot goes over to it); otherwise the granted
\* count goes down.  History counts the calls.
release(w) ==
  LET q == queue(w)
      w1 == [w EXCEPT !.hist.releases = @ + 1]
  IN IF q # <<>>
     THEN trigger([w1 EXCEPT !.counters.queue = Tail(q),
                             !.hist.grant_at[Head(q)] = w.now_], Head(q))
     ELSE [w1 EXCEPT !.counters.queue = q, !.counters.granted = @ - 1]

\* simulation::step with x the entry the queue hands out; history keeps the
\* entry and whether its event was still to be processed.
step(w, x) ==
  LET w1 == [w EXCEPT !.scheduled_evs = @ \ {x},
                      !.now_ = x.time,
                      !.hist.log = <<>>,
                      !.hist.last_pop =
                         [time |-> x.time, id |-> x.id, ev |-> x.ev,
                          live |-> w.state_[x.ev] \notin
                                     {"processed", "aborted"}]]
  IN process(w1, x.ev)

(* ------------------------ client code: actions ------------------------- *)

Live == 1..n_events

Delays == 0..MaxDelay

Instr(n) == [op : {"await", "trigger", "abort"}, ev : 1..n]

\* The bodies a coroutine may have: one statement, or a wait followed by
\* one statement, over the events that exist when it is created.
Progs(n) ==
  {<<i>> : i \in Instr(n)}
    \cup {<<a, i>> : a \in {j \in Instr(n) : j.op = "await"}, i \in Instr(n)}

\* What client code may still use up under the bounds b of a specification.
RoomEvent(b) == n_events < b.events

RoomId(b) == next_id < b.ids

RoomCbs(b, n) == hist.n_cbs + n <= b.cbs

RoomProc(b) == n_procs < b.procs

\* event ev{sim};
NewEvent(b) ==
  /\ RoomEvent(b)
  /\ Commit(new_event(World, "plain"))

\* ev.trigger();
Trigger(b, e) ==
  /\ RoomId(b)
  /\ Commit(trigger(Touch(World, e), e))

\* ev.abort();
Abort(e) == Commit(abort(Touch(World, e), e))

\* ev.add_callback(fn);
AddCallback(b, e) ==
  /\ RoomCbs(b, 1)
  /\ Commit(register(World, e, "user", 0))

\* ev.add_callback(fn); where fn gives a further callback to ev
AddCallbackAgain(b, e) ==
  /\ RoomCbs(b, 1)
  /\ Commit(register(World, e, "again", e))

\* resource counters{sim, c};
NewResource(c) ==
  /\ counters = NoResource
  /\ Commit([World EXCEPT !.counters.capacity = c])

\* counters.request();
Request(b) ==
  /\ counters # NoResource
  /\ RoomEvent(b) /\ RoomId(b)
  /\ Commit(request(World))

\* The requests, and those a slot was granted to and that still hold it.
Requests == {e \in Live : hist.kind[e] = "request"}

Granted == {e \in Requests : triggered(World, e)}

\* counters.release(); by client code that holds a granted slot
Release(b) ==
  /\ hist.releases < Cardinality(Granted)
  /\ RoomId(b)
  /\ Commit(release(World))

\* main() of the bank with the random draws it will make: one counter, the
\* customer source started; sim.run() is the steps that follow.
Main(arrival, service) ==
  /\ n_events = 0 /\ n_procs = 0 /\ counters = NoResource
  /\ Commit(spawn([World EXCEPT !.counters.capacity = 1],
                  customer_source(arrival, service)))

\* sim.schedule(ev, delay);
Schedule(b, e, d) ==
  /\ RoomId(b)
  /\ Commit(schedule(Touch(World, e), e, d))

\* sim.timeout(delay);
Timeout(b, d) ==
  /\ RoomEvent(b) /\ RoomId(b)
  /\ Commit(timeout(World, d))

\* sim.any_of({e1, e2}); also e1 | e2
AnyOf(b, e1, e2) ==
  /\ RoomEvent(b) /\ RoomId(b) /\ RoomCbs(b, 2)
  /\ Commit(any_of(World, <<e1, e2>>))

\* sim.all_of({e1, e2}); also e1 & e2
AllOf(b, e1, e2) ==
  /\ RoomEvent(b) /\ RoomId(b) /\ RoomCbs(b, 2)
  /\ Commit(all_of(World, <<e1, e2>>))

\* sim.all_of({});
AllOfNone(b) ==
  /\ RoomEvent(b) /\ RoomId(b)
  /\ Commit(all_of(World, <<>>))

\* Calling a coroutine function with the body prog.
Spawn(b, prog) ==
  /\ RoomEvent(b) /\ RoomId(b) /\ RoomProc(b)
  /\ Commit(spawn(World, prog))

\* sim.step();
Step ==
  /\ scheduled_evs # {}
  /\ \E x \in top(scheduled_evs) : Commit(step(World, x))

(* --------------------------- specifications --------------------------- *)

\* Every operation on events, with client callbacks and one coroutine.
Bounds == [events |-> MaxEvents, ids |-> MaxIds, cbs |-> MaxCbs,
           procs |-> MaxProcs]

Next ==
  \/ NewEvent(Bounds)
  \/ \E e \in Live : Trigger(Bounds, e)
  \/ \E e \in Live : Abort(e)
  \/ \E e \in Live : AddCallback(Bounds, e)
  \/ \E e \in Live, d \in Delays : Schedule(Bounds, e, d)
  \/ \E d \in Delays : Timeout(Bounds, d)
  \/ \E prog \in Progs(n_events) : Spawn(Bounds, prog)
  \/ Step

Spec == Init /\ [][Next]_vars

\* The scheduler alone: schedule, timeout, trigger and step.
SchedBounds == [events |-> SchedEvents, ids |-> MaxIds, cbs |-> 0, procs |-> 0]

NextSched ==
  \/ NewEvent(SchedBounds)
  \/ \E e \in Live : Trigger(SchedBounds, e)
  \/ \E e \in Live, d \in Delays : Schedule(SchedBounds, e, d)
  \/ \E d \in Delays : Timeout(SchedBounds, d)
  \/ Step

SpecSched == Init /\ [][NextSched]_vars

\* Coroutines that await events and each other.
ProcBounds == [events |-> MaxEvents, ids |-> FewIds, cbs |-> 0,
               procs |-> ProcProcs]

NextProc ==
  \/ NewEvent(ProcBounds)
  \/ \E e \in Live : Trigger(ProcBounds, e)
  \/ \E e \in Live : Abort(e)
  \/ \E prog \in Progs(n_events) : Spawn(ProcBounds, prog)
  \/ Step

SpecProc == Init /\ [][NextProc]_vars

\* The order within process(): several waiters and callbacks of one event.
OrderBounds == [events |-> MaxEvents, ids |-> MaxIds, cbs |-> CombCbs,
                procs |-> ProcProcs]

NextOrder ==
  \/ NewEvent(OrderBounds)
  \/ \E e \in Live : Trigger(OrderBounds, e)
  \/ \E e \in Live : AddCallback(OrderBounds, e)
  \/ \E e \in Live : AddCallbackAgain(OrderBounds, e)
  \/ \E prog \in Progs(n_events) : Spawn(OrderBounds, prog)
  \/ Step

SpecOrder == Init /\ [][NextOrder]_vars

\* A resource: requests, releases and aborted requests.
ResBounds == [events |-> ResEvents, ids |-> ResIds, cbs |-> 0, procs |-> 0]

NextRes ==
  \/ \E c \in 1..MaxCapacity : NewResource(c)
  \/ Request(ResBounds)
  \/ Release(ResBounds)
  \/ \E e \in Live : Abort(e)
  \/ Step

SpecRes == InitOver(1..ResEvents, {}) /\ [][NextRes]_vars

\* The bank: main() and then sim.run(), which steps while the queue has
\* an entry.
Draws(n, max) == [1..n -> 0..max]

NextBank ==
  \/ \E a \in Draws(NCustomers, MaxDelay), s \in Draws(NCustomers, MaxService) :
       Main(a, s)
  \/ Step

SpecBank == InitOver(1..BankEvents, 1..(NCustomers + 1)) /\ [][NextBank]_vars

\* The combinators any_of and all_of.
CombBounds == [events |-> MaxEvents, ids |-> FewIds, cbs |-> CombCbs,
               procs |-> 0]

NextComb ==
  \/ NewEvent(CombBounds)
  \/ \E e \in Live : Trigger(CombBounds, e)
  \/ \E e \in Live : Abort(e)
  \/ \E d \in Delays : Timeout(CombBounds, d)
  \/ \E e1 \in Live, e2 \in Live : e1 < e2 /\ AnyOf(CombBounds, e1, e2)
  \/ \E e1 \in Live, e2 \in Live : e1 < e2 /\ AllOf(CombBounds, e1, e2)
  \/ AllOfNone(CombBounds)
  \/ Step

SpecComb == Init /\ [][NextComb]_vars

(* -------------------------------- claims ------------------------------ *)

Terminal == {"processed", "aborted"}

\* (time, sequence number) order of two queue entries
Before(a, b) == a.time < b.time \/ (a.time = b.time /\ a.id < b.id)

\* C1: whenever the scheduler pops an entry, that entry comes after the one
\* popped before it and before every other entry pending at that moment, in
\* the order of ascending time and, at equal time, ascending sequence number.
C1_PopsInOrder ==
  [][hist.last_pop' # hist.last_pop =>
       /\ hist.last_pop.ev # 0 => Before(hist.last_pop, hist.last_pop')
       /\ \A q \in scheduled_evs :
            q.id # hist.last_pop'.id => Before(hist.last_pop', q)
    ]_vars

\* C1 witness: an entry has been popped while an entry scheduled before it
\* for a later time, and a later entry for the same time, are still pending.
C1_Witness ==
  /\ hist.last_pop.ev # 0
  /\ \E q \in scheduled_evs :
       q.id < hist.last_pop.id /\ q.time > hist.last_pop.time
  /\ \E q \in scheduled_evs :
       q.id > hist.last_pop.id /\ q.time = hist.last_pop.time

\* C2: once an event is processed or aborted, no operation changes its
\* state again.
C2_TerminalIsFinal ==
  [][\A e \in Events : state_[e] \in Terminal => state_'[e] = state_[e]]_vars

\* C2 witness: the scheduler has popped an entry of an aborted event, and
\* trigger() has been called again on an event that is processed.
C2_Witness ==
  /\ \E e \in Live : state_[e] = "aborted" /\ hist.last_pop.ev = e
  /\ \E e \in Live : state_[e] = "processed" /\ hist.trig_again[e]

\* C3 as stated: the only transitions are pending -> triggered,
\* triggered -> processed and pending -> aborted.
C3_Original ==
  [][\A e \in Events :
       state_'[e] # state_[e] =>
         <<state_[e], state_'[e]>> \in
           {<<"pending", "triggered">>, <<"triggered", "processed">>,
            <<"pending", "aborted">>}]_vars

\* C3 amended: the only transitions are pending -> triggered,
\* triggered -> processed, pending -> aborted and pending -> processed
\* (an event that was scheduled and never triggered: a timeout, a
\* coroutine's ev_).
C3_Transitions ==
  [][\A e \in Events :
       state_'[e] # state_[e] =>
         <<state_[e], state_'[e]>> \in
           {<<"pending", "triggered">>, <<"triggered", "processed">>,
            <<"pending", "aborted">>, <<"pending", "processed">>}]_vars

\* C3 witness: an event is processed that trigger() never scheduled, beside
\* one that trigger() did schedule.
C3_Witness ==
  /\ \E e \in Live : state_[e] = "processed" /\ hist.trig_enq[e] = 0
  /\ \E e \in Live : state_[e] = "processed" /\ hist.trig_enq[e] = 1

\* The program's state without the history.
progvars == <<state_, handles_, cbs_, n_events, scheduled_evs, now_, next_id,
              procs, n_procs, n_ptr, counters>>

Started == 1..n_procs

\* The event coroutine p awaits at resume point i: its own ev_ at 0 (the
\* initial suspend), the event of an await statement, or 0 for none.
AwaitsAt(p, i) ==
  IF i = 0 THEN procs[p].ev
  ELSE IF i <= Len(procs[p].prog) /\ procs[p].prog[i].op = "await"
       THEN procs[p].prog[i].ev
       ELSE 0

\* The events whose await statement in its body coroutine p has passed.
PastWaits(p) == {AwaitsAt(p, i) : i \in 1..(procs[p].pc - 1)} \ {0}

\* The event a suspended coroutine is suspended on.
WaitsOn(p) == AwaitsAt(p, procs[p].pc)

Fired(e) == {hist.cb_fired[e][k] : k \in DOMAIN hist.cb_fired[e]}

\* C4: trigger() on an event that is not pending changes nothing (no queue
\* entry, no state); trigger() schedules an event at most once however
\* often it is called, and the callbacks of an event are not invoked before
\* it is processed and exactly once each when it is, and none of its waiters
\* is left suspended.
C4_TriggerOnce ==
  /\ [](\A e \in Live :
          /\ hist.trig_enq[e] <= 1
          /\ state_[e] = "processed" => Fired(e) \subseteq {Late, 1}
          /\ state_[e] # "processed" => Fired(e) \subseteq {Late, 0}
          /\ state_[e] = "processed" =>
               \A p \in Started :
                 procs[p].st = "suspended" => WaitsOn(p) # e)
  /\ [][\A e \in Live :
          state_[e] # "pending" /\ Trigger(Bounds, e) => UNCHANGED progvars
       ]_vars

\* C4 witness: trigger() was called again on an event it had scheduled; the
\* event is processed, its callback was invoked once and a coroutine that
\* waited for it has gone on.
C4_Witness ==
  \E e \in Live :
    /\ hist.trig_again[e] /\ hist.trig_enq[e] = 1
    /\ state_[e] = "processed"
    /\ 1 \in Fired(e)
    /\ \E p \in Started : e \in PastWaits(p)

\* C5: an aborted event stays aborted (aborted() true, triggered() and
\* processed() false); no callback given to it is ever invoked, no coroutine
\* goes on past a wait for it, and a coroutine destroyed at such a wait
\* never runs again.
C5_AbortIsFinal ==
  /\ [](\A e \in Live :
          state_[e] = "aborted" =>
            /\ aborted(World, e)
            /\ ~triggered(World, e)
            /\ ~processed(World, e)
            /\ Fired(e) \subseteq {Late, 0}
            /\ \A p \in Started :
                 /\ e \notin PastWaits(p)
                 /\ WaitsOn(p) = e => procs[p].st = "destroyed")
  /\ [][/\ \A e \in Live : state_[e] = "aborted" => state_'[e] = "aborted"
        /\ \A p \in Started :
             procs[p].st = "destroyed" => procs'[p] = procs[p]
       ]_vars

\* C5 witness: an event with an entry in the queue was aborted while a
\* coroutine waited for it and a callback had been given to it, and the
\* scheduler has since popped the entry.
C5_Witness ==
  \E e \in Live :
    /\ state_[e] = "aborted"
    /\ hist.last_pop.ev = e
    /\ hist.cb_fired[e] # <<>>
    /\ \E p \in Started : WaitsOn(p) = e /\ procs[p].susp = 2

\* C6: every suspension of a coroutine is resumed at most once, every
\* callback is invoked at most once, and a processed or aborted event has
\* an empty waiter list and an empty callback list.
C6_AtMostOnce ==
  /\ \A p \in Started :
       /\ procs[p].res <= procs[p].susp
       /\ procs[p].st = "suspended" => procs[p].res = procs[p].susp - 1
       /\ procs[p].st = "done" => procs[p].res = procs[p].susp
  /\ \A e \in Live : Fired(e) \subseteq {Late, 0, 1}
  /\ \A e \in Live :
       state_[e] \in Terminal => handles_[e] = <<>> /\ cbs_[e] = <<>>

\* C6 witness: the scheduler has popped a second entry of an event that was
\* processed at its first one; the event's callback was invoked and a
\* coroutine that waited for it was resumed.
C6_Witness ==
  \E e \in Live :
    /\ state_[e] = "processed"
    /\ hist.last_pop.ev = e /\ ~hist.last_pop.live
    /\ 1 \in Fired(e)
    /\ \E p \in Started : e \in PastWaits(p) /\ procs[p].res = 2

\* C7: a coroutine that has gone past a wait for the completion event of
\* another coroutine did so after the body of that other coroutine returned.
C7_ResumedAfterReturn ==
  \A p \in Started, q \in Started :
    (p # q /\ procs[q].ev \in PastWaits(p)) => procs[q].st = "done"

\* C8: a coroutine is suspended only on an event that is pending or
\* triggered and is then on the waiter list of that event once and on no
\* other; every wait it has passed was for an event that is processed; it
\* is resumed in exactly the step that makes the event it waits for
\* processed; and a wait for a processed event goes on at once, with no
\* suspension, no waiter added, and no change to the queue or to any state.
C8_WaitPoint ==
  /\ [](\A p \in Started :
          /\ procs[p].st = "suspended" =>
                /\ state_[WaitsOn(p)] \in {"pending", "triggered"}
                /\ \A e \in Live :
                     Cardinality({i \in DOMAIN handles_[e] : handles_[e][i] = p})
                       = IF e = WaitsOn(p) THEN 1 ELSE 0
          /\ \A e \in PastWaits(p) : state_[e] = "processed"
          /\ procs[p].pc >= 1 => state_[procs[p].ev] = "processed"
          /\ \A e \in Live :
               processed(World, e) =>
                 LET w == co_await(World, e, p) IN
                   /\ w.handles_ = handles_
                   /\ w.scheduled_evs = scheduled_evs
                   /\ w.state_ = state_
                   /\ w.procs[p].st = procs[p].st
                   /\ w.procs[p].susp = procs[p].susp
                   /\ w.procs[p].pc = procs[p].pc + 1)
  /\ [][\A p \in Started :
          procs[p].st = "suspended" =>
            (procs'[p].res # procs[p].res
               <=> state_'[WaitsOn(p)] = "processed")
       ]_vars

\* C8 witness: a coroutine was suspended at a wait, was resumed when the
\* event was processed, and went straight through a later wait for an
\* event that was processed already.
C8_Witness ==
  \E p \in Started :
    /\ procs[p].sync >= 1 /\ procs[p].res >= 2
    /\ Len(procs[p].prog) = 2 /\ procs[p].st = "done"

\* The queue entries of event c, and the events a combinator was built over.
Entries(q, c) == {x \in q : x.ev = c}

Srcs(c) == {hist.srcs[c][i] : i \in DOMAIN hist.srcs[c]}

\* The combinators of kind k that client code has not triggered or aborted.
Untouched(k) == {c \in Live : hist.kind[c] = k /\ c \notin hist.direct}

\* C9: the event of any_of over events that were unprocessed at its
\* construction is pending as long as none of them is processed and is
\* triggered, by exactly one call of trigger() that schedules it, once one
\* of them is; it has one queue entry while triggered and none otherwise;
\* it leaves pending in the step that processes one of its events, with its
\* entry at the time of that step; and neither its construction nor its
\* triggering changes the state of the events it was built over.
C9_AnyOf ==
  /\ [](\A c \in Untouched("any_of") \cap hist.fresh :
          LET some == \E s \in Srcs(c) : state_[s] = "processed" IN
          /\ ~some => state_[c] = "pending" /\ hist.trig_enq[c] = 0
          /\ some => state_[c] \in {"triggered", "processed"}
                        /\ hist.trig_enq[c] = 1
          /\ Cardinality(Entries(scheduled_evs, c))
               = IF state_[c] = "triggered" THEN 1 ELSE 0)
  /\ [][/\ \A c \in Untouched("any_of") \cap hist.fresh :
             (c \notin hist'.direct /\ state_[c] = "pending"
                /\ state_'[c] # "pending") =>
               /\ state_'[c] = "triggered"
               /\ hist.last_pop' # hist.last_pop
               /\ hist.last_pop'.ev \in Srcs(c)
               /\ \A x \in Entries(scheduled_evs', c) :
                    x.time = hist.last_pop'.time /\ x.time = now_'
               /\ \A s \in Srcs(c) \ {hist.last_pop'.ev} :
                    hist.kind[s] = "plain" => state_'[s] = state_[s]
        /\ (n_events' = n_events + 1 /\ hist'.kind[n_events'] = "any_of") =>
             \A e \in Live : state_'[e] = state_[e]
       ]_vars

\* C9 witness: both events of an any_of were processed after it was built,
\* its closure was invoked at each, and its own event is processed.
C9_Witness ==
  \E c \in Untouched("any_of") \cap hist.fresh :
    /\ Cardinality(Srcs(c)) = 2
    /\ \A s \in Srcs(c) : state_[s] = "processed" /\ 1 \in Fired(s)
    /\ state_[c] = "processed" /\ hist.trig_enq[c] = 1

\* C10: the event of all_of over two events is pending while one of them
\* is unprocessed; when it was built over unprocessed events it is
\* triggered, by exactly one scheduling call of trigger(), once both are
\* processed, leaving pending in the step that processes the second of
\* them; all_of over no events is triggered in the step that constructs it.
C10_AllOf ==
  /\ [](\A c \in Untouched("all_of") :
          LET all == \A s \in Srcs(c) : state_[s] = "processed" IN
          /\ ~all => state_[c] = "pending" /\ hist.trig_enq[c] = 0
          /\ (all /\ c \in hist.fresh) =>
               /\ state_[c] \in {"triggered", "processed"}
               /\ hist.trig_enq[c] = 1
          /\ Cardinality(Entries(scheduled_evs, c))
               = IF state_[c] = "triggered" THEN 1 ELSE 0)
  /\ [][/\ \A c \in Untouched("all_of") \cap hist.fresh :
             (c \notin hist'.direct /\ state_[c] = "pending"
                /\ state_'[c] # "pending") =>
               /\ state_'[c] = "triggered"
               /\ hist.last_pop' # hist.last_pop
               /\ hist.last_pop'.ev \in Srcs(c)
               /\ \A s \in Srcs(c) : state_'[s] = "processed"
               /\ \A x \in Entries(scheduled_evs', c) : x.time = now_'
        /\ (n_events' = n_events + 1 /\ hist'.kind[n_events'] = "all_of"
              /\ hist'.srcs[n_events'] = <<>>) =>
             /\ state_'[n_events'] = "triggered"
             /\ hist'.trig_enq[n_events'] = 1
             /\ \E x \in Entries(scheduled_evs', n_events') : x.time = now_
       ]_vars

\* C10 witness: an all_of over two unprocessed events whose second event
\* was processed first and whose first event has just been processed, so
\* that its own event is triggered; and an all_of over no events exists.
C10_Witness ==
  /\ \E c \in Untouched("all_of") \cap hist.fresh :
       /\ Cardinality(Srcs(c)) = 2
       /\ \A s \in Srcs(c) : state_[s] = "processed" /\ 1 \in Fired(s)
       /\ hist.last_pop.ev = hist.srcs[c][1]
       /\ state_[c] = "triggered" /\ hist.trig_enq[c] = 1
  /\ \E c \in Untouched("all_of") : hist.srcs[c] = <<>>

\* C11: a combinator built over events of which some were processed
\* already counts those: the event of such an any_of is triggered in the
\* step that constructs it, and the event of such an all_of is triggered as
\* soon as all its events are processed; while triggered it has exactly one
\* queue entry, so the scheduler will process it.
C11_ProcessedCount ==
  /\ [](\A c \in Untouched("any_of") \ hist.fresh :
          /\ state_[c] \in {"triggered", "processed"}
          /\ hist.trig_enq[c] = 1
          /\ Cardinality(Entries(scheduled_evs, c))
               = IF state_[c] = "triggered" THEN 1 ELSE 0)
  /\ [](\A c \in Untouched("all_of") \ hist.fresh :
          /\ (\A s \in Srcs(c) : state_[s] = "processed") =>
               state_[c] \in {"triggered", "processed"} /\ hist.trig_enq[c] = 1
          /\ Cardinality(Entries(scheduled_evs, c))
               = IF state_[c] = "triggered" THEN 1 ELSE 0)
  /\ [][(n_events' = n_events + 1 /\ hist'.kind[n_events'] = "any_of"
           /\ \E i \in DOMAIN hist'.srcs[n_events'] :
                state_[hist'.srcs[n_events'][i]] = "processed") =>
          state_'[n_events'] = "triggered"
       ]_vars

\* C11 witness: an all_of built over one processed and one unprocessed
\* event, no callback given to the processed one, whose other event has
\* been processed since and whose own event is triggered.
C11_Witness ==
  \E c \in Untouched("all_of") \ hist.fresh :
    /\ Cardinality(Srcs(c)) = 2
    /\ \A s \in Srcs(c) : state_[s] = "processed"
    /\ \E s \in Srcs(c) : hist.cb_fired[s] = <<>>
    /\ \E s \in Srcs(c) : hist.cb_fired[s] = <<1>>
    /\ state_[c] = "triggered"

\* C16: no step makes now smaller; now changes only in a step that pops an
\* entry, and becomes the time of that entry; every entry that enters the
\* queue is for a time not before now, and no entry in the queue is for a
\* time before now, so that an event is processed no earlier than the time
\* at which it was scheduled.
C16_ClockMonotone ==
  /\ [](\A x \in scheduled_evs : x.time >= now_)
  /\ [][/\ now_' >= now_
        /\ now_' # now_ => hist.last_pop' # hist.last_pop
        /\ hist.last_pop' # hist.last_pop =>
             /\ now_' = hist.last_pop'.time
             /\ hist.last_pop' .id \in {x.id : x \in scheduled_evs}
        /\ \A x \in scheduled_evs' \ scheduled_evs : x.time >= now_
       ]_vars

\* C16 witness: the clock has advanced twice, the last time to an entry
\* that was scheduled with a delay after the first advance, and an entry
\* for the same time is still in the queue.
C16_Witness ==
  /\ now_ = 2 /\ hist.last_pop.time = 2
  /\ state_[hist.last_pop.ev] = "processed"
  /\ \E x \in scheduled_evs : x.time = now_

\* C17 as stated: every entry the scheduler pops is for an event that is
\* neither processed nor aborted at that moment.
C17_Original == hist.last_pop.ev # 0 => hist.last_pop.live

\* C17: the scheduler may pop an entry of an event that is processed or
\* aborted already; process() then changes no state, resumes no coroutine
\* and invokes no callback: the step only removes the entry and sets now.
C17_LatePop ==
  [][(hist.last_pop' # hist.last_pop /\ ~hist.last_pop'.live) =>
       /\ state_[hist.last_pop'.ev] \in Terminal
       /\ UNCHANGED <<state_, handles_, cbs_, procs, n_ptr, n_events, next_id,
                      counters>>
       /\ hist' = [hist EXCEPT !.last_pop = hist.last_pop', !.log = <<>>]
       /\ scheduled_evs' \subseteq scheduled_evs
    ]_vars

\* C17 witness: the entry of a timeout that was aborted before its time has
\* been popped, while a callback had been given to the event.
C17_Witness ==
  /\ hist.last_pop.ev # 0 /\ ~hist.last_pop.live
  /\ hist.last_pop.time = 1
  /\ state_[hist.last_pop.ev] = "aborted"
  /\ hist.cb_fired[hist.last_pop.ev] = <<0>>

\* The log that process() of e must leave: one resumption for each waiter,
\* in the order of the waiter list, then one invocation for each callback,
\* in the order of the callback list.
InOrder(e) ==
  [i \in 1..Len(handles_[e]) |-> [k |-> "resume", n |-> handles_[e][i]]]
    \o [i \in 1..Len(cbs_[e]) |-> [k |-> "cb", n |-> cbs_[e][i].k]]

\* C18: a step that processes an event resumes its waiters in the order in
\* which they suspended on it and then invokes its callbacks in the order
\* in which they were given; the event is processed when they run, so that
\* afterwards none of the waiters is suspended on it again and both lists
\* are empty, whatever the waiters and the callbacks did.
C18_ProcessOrder ==
  [][(hist.last_pop' # hist.last_pop /\ hist.last_pop'.live) =>
       LET e == hist.last_pop'.ev IN
       /\ hist'.log = InOrder(e)
       /\ state_'[e] = "processed"
       /\ handles_'[e] = <<>> /\ cbs_'[e] = <<>>
       /\ \A i \in DOMAIN handles_[e] :
            LET p == handles_[e][i] IN
            /\ procs'[p].res = procs[p].res + 1
            /\ procs'[p].pc > procs[p].pc
            /\ procs'[p].st = "suspended" =>
                 \E j \in DOMAIN procs[p].prog :
                   /\ j = procs'[p].pc
                   /\ procs[p].prog[j].ev # e
    ]_vars

\* C18 witness: an event with two waiters and two callbacks has been
\* processed; one of the waiters awaited the event again and went straight
\* on, and the first callback gave the event a further callback, which was
\* not kept.
C18_Witness ==
  \E e \in Live :
    /\ hist.last_pop.ev = e /\ hist.last_pop.live
    /\ Len(hist.log) = 4
    /\ hist.log[1].k = "resume" /\ hist.log[2].k = "resume"
    /\ hist.log[1].n # hist.log[2].n
    /\ hist.log[3] = [k |-> "cb", n |-> 1] /\ hist.log[4] = [k |-> "cb", n |-> 2]
    /\ hist.cb_fired[e] = <<1, 1, Late>>
    /\ \E p \in Started : procs[p].sync = 1 /\ procs[p].prog[2].ev = e
    /\ cbs_[e] = <<>>

\* The requests still waiting for a slot, and the earliest of a set.
Waiting == {r \in Requests : state_[r] = "pending"}

First(S) == CHOOSE r \in S : \A t \in S : r <= t

\* A step is a call of release(), of request(), or client code's abort()
\* of the waiting request r.
Releasing == hist'.releases = hist.releases + 1

Requesting == n_events' = n_events + 1 /\ hist'.kind[n_events'] = "request"

Abandoning(r) == state_[r] = "pending" /\ state_'[r] = "aborted"

\* C12: the granted count of the resource is at least 0 and at most its
\* capacity, and it is the number of requests that were granted minus the
\* number of calls of release().
C12_GrantedWithinCapacity ==
  /\ counters.granted >= 0
  /\ counters.granted <= counters.capacity
  /\ counters.granted = Cardinality(Granted) - hist.releases

\* C12 witness: all slots of a resource of capacity 2 are granted after a
\* request was aborted in the queue and a release handed a slot on.
C12_Witness ==
  /\ counters.capacity = 2 /\ counters.granted = 2
  /\ hist.releases = 1
  /\ Cardinality(Granted) = 3
  /\ \E r \in Requests : state_[r] = "aborted"

\* C13: no request is granted while an earlier request is still waiting;
\* request() grants the new request at once exactly when a slot is free;
\* and release() grants the earliest waiting request and no other.
C13_ArrivalOrder ==
  /\ [](\A r1 \in Requests, r2 \in Requests :
          (r1 < r2 /\ state_[r2] \in {"triggered", "processed"}) =>
            state_[r1] # "pending")
  /\ [][/\ Requesting =>
             /\ state_'[n_events'] =
                  IF counters.granted < counters.capacity
                  THEN "triggered" ELSE "pending"
             /\ \A r \in Requests : state_'[r] = state_[r]
        /\ (Releasing /\ Waiting # {}) =>
             /\ state_'[First(Waiting)] = "triggered"
             /\ \A r \in Requests \ {First(Waiting)} : state_'[r] = state_[r]
       ]_vars

\* C13 witness: capacity 1 and four requests; the first was granted at
\* once, a release granted the second, the third was aborted in the queue,
\* and the next release granted the fourth.
C13_Witness ==
  /\ counters.capacity = 1 /\ hist.releases = 2
  /\ Requests = 1..4
  /\ state_[1] = "processed" /\ state_[2] = "processed"
  /\ state_[3] = "aborted" /\ state_[4] = "triggered"

\* C14: abort() of a waiting request leaves the granted count, the state
\* of every other request and the order of the other requests in the queue
\* unchanged; and every release() either grants a waiting request that is
\* not aborted, keeping the granted count, or finds none waiting and takes
\* the granted count down by one.
C14_AbortNoSlot ==
  [][/\ \A r \in Requests :
          Abandoning(r) =>
            /\ counters'.granted = counters.granted
            /\ queue(World)' = SelectSeq(queue(World), LAMBDA t : t # r)
            /\ \A t \in Requests \ {r} : state_'[t] = state_[t]
            /\ scheduled_evs' = scheduled_evs
     /\ Releasing =>
          \/ /\ counters'.granted = counters.granted
             /\ \E r \in Requests :
                  state_[r] = "pending" /\ state_'[r] = "triggered"
          \/ /\ counters'.granted = counters.granted - 1
             /\ \A r \in Requests : state_[r] # "pending"
    ]_vars

\* C14 witness: the only waiting request was aborted, and the release
\* after it freed the slot.
C14_Witness ==
  /\ counters.capacity = 1 /\ counters.granted = 0
  /\ hist.releases = 1
  /\ Requests = 1..2
  /\ state_[2] = "aborted"

\* C15: while a request that is not aborted waits in the queue, every slot
\* is granted; release() with a request waiting hands the slot to the head
\* of the queue and keeps the granted count, and with none waiting takes
\* the granted count down by one.
C15_WorkConserving ==
  /\ [](queue(World) # <<>> => counters.granted = counters.capacity)
  /\ [](\A r \in Requests :
          state_[r] = "pending" <=>
            \E i \in DOMAIN queue(World) : queue(World)[i] = r)
  /\ [][Releasing =>
          IF queue(World) # <<>>
          THEN /\ counters'.granted = counters.granted
               /\ state_'[Head(queue(World))] = "triggered"
               /\ queue(World)' = Tail(queue(World))
          ELSE counters'.granted = counters.granted - 1
       ]_vars

\* C15 witness: capacity 2 and four requests; a release handed a slot to
\* the third while the fourth still waits and both slots are granted.
C15_Witness ==
  /\ counters.capacity = 2 /\ counters.granted = 2
  /\ hist.releases = 1
  /\ state_[3] = "triggered" /\ queue(World) = <<4>>

\* The customers of the bank that have been started, and the request of
\* one (0 before it has made it).
Customers ==
  {p \in 1..n_procs : procs[p].prog # <<>> /\ procs[p].prog[1].op = "arrive"}

Req(p) == IF procs[p].loc = <<>> THEN 0 ELSE procs[p].loc[1]

WasGranted(p) == Req(p) # 0 /\ hist.grant_at[Req(p)] # Late

\* sim.run() has returned: main() has run and the queue is empty.
RunReturned == n_procs > 0 /\ scheduled_evs = {}

BankDone ==
  /\ n_procs = NCustomers + 1
  /\ \A p \in 1..n_procs : procs[p].st = "done"
  /\ \A p \in Customers :
       /\ hist.cust[p].out \in {"served", "unhappy"}
       /\ hist.cust[p].out = "served" => hist.cust[p].released = 1

\* C19: a customer that is served was granted its request no later than
\* MaxWait after its arrival; a customer that leaves unhappy does so
\* exactly MaxWait after its arrival, with its request aborted and never
\* granted, and never releases; only a served customer releases, once.
\* run() comes to its end, since every step pops one entry and no more
\* than BankEvents entries are ever scheduled; and when it has returned,
\* every customer has returned with one of the two outcomes, the served
\* ones having released.
C19_Outcome ==
  /\ [](\A p \in Customers :
          LET c == hist.cust[p] IN
          /\ c.out = "served" =>
               /\ WasGranted(p)
               /\ hist.grant_at[Req(p)] <= c.arrive + MaxWait
               /\ hist.grant_at[Req(p)] <= c.at /\ c.at <= c.arrive + MaxWait
               /\ state_[Req(p)] \in {"triggered", "processed"}
          /\ c.out = "unhappy" =>
               /\ ~WasGranted(p)
               /\ state_[Req(p)] = "aborted"
               /\ c.at = c.arrive + MaxWait
               /\ c.released = 0 /\ procs[p].st = "done"
          /\ c.released <= 1
          /\ c.released = 1 => c.out = "served" /\ procs[p].st = "done")
  /\ [](next_id <= BankEvents)
  /\ [](RunReturned => BankDone)
  /\ [][n_procs > 0 =>
          next_id' - Cardinality(scheduled_evs')
            = next_id - Cardinality(scheduled_evs) + 1
       ]_vars

\* C19 witness: of three customers one was served and has released, one
\* has left unhappy, and one was granted its request at the very time its
\* wait ran out and was served.
C19_Witness ==
  \E a \in Customers, b \in Customers, c \in Customers :
    /\ hist.cust[a].out = "served" /\ hist.cust[a].released = 1
    /\ hist.cust[b].out = "unhappy"
    /\ hist.cust[c].out = "served" /\ a # c
    /\ hist.grant_at[Req(c)] = hist.cust[c].arrive + MaxWait
    /\ hist.cust[c].at = hist.grant_at[Req(c)]

\* C20: release() is called once by each customer that was granted its
\* request and has finished its service and by no other; the granted count
\* is the number of customers that hold a slot; and when run() has
\* returned the granted count is 0, no request waits in the queue and
\* every coroutine has returned.
C20_NoLeak ==
  /\ \A p \in Customers :
       /\ hist.cust[p].released <= 1
       /\ hist.cust[p].released = 1 => WasGranted(p)
  /\ hist.releases = Cardinality({p \in Customers : hist.cust[p].released = 1})
  /\ counters.granted =
       Cardinality({p \in Customers :
                      WasGranted(p) /\ hist.cust[p].released = 0})
  /\ RunReturned =>
       /\ counters.granted = 0
       /\ queue(World) = <<>>
       /\ \A e \in Requests : state_[e] # "pending"
       /\ n_procs = NCustomers + 1
       /\ \A p \in 1..n_procs : procs[p].st = "done"
       /\ \A p \in Customers : WasGranted(p) => hist.cust[p].released = 1

\* C20 witness: run() has returned after one customer aborted its request
\* in the queue and left, and two customers were served and released.
C20_Witness ==
  /\ RunReturned
  /\ hist.releases = 2
  /\ \E p \in Customers : hist.cust[p].out = "unhappy"
  /\ \E e \in Requests :
       state_[e] = "aborted" /\ hist.last_pop.time > hist.cust[1 + 1].arrive

====
